---- MODULE Spec2Model ----
(***************************************************************************)
(* A model of the ExamHelper component (src/ExamHelper.js): the upload     *)
(* handler with its progress timer and the text-analysis pipeline          *)
(* (extractKeyTerms, generateSummary, generateMCQs, generateQnA).          *)
(*                                                                         *)
(* A JavaScript string is a sequence of one-character strings, so that     *)
(* split, trim, toLowerCase, includes and the regular expressions of the   *)
(* source are computed character by character.  User-visible messages     *)
(* and question sentences that the code only stores are TLA+ strings or    *)
(* records naming the template and the term.                               *)
(***************************************************************************)
EXTENDS Integers, Sequences, FiniteSets, TLC

VARIABLES
  file,             \* useState(null), line 13: "null" or the stored File
  isLoading,        \* line 16
  summary,          \* line 17
  mcqs,             \* line 18
  qna,              \* line 19
  errorMessage,     \* line 20
  uploadProgress,   \* line 21
  processingStage,  \* line 22
  keyTerms,         \* line 24
  uploads,          \* the handleFileUpload invocations: position, file, timer
  doc,              \* the text handed to the pipeline function under check
  terms,            \* the local `terms` of processDocument (line 193)
  pc                \* position of the pipeline harness

vars == <<file, isLoading, summary, mcqs, qna, errorMessage, uploadProgress,
          processingStage, keyTerms, uploads, doc, terms, pc>>

(***************************************************************************)
(* Characters and the JavaScript string primitives the source uses.        *)
(***************************************************************************)
Upper == <<"A","B","C","D","E","F","G","H","I","J","K","L","M",
           "N","O","P","Q","R","S","T","U","V","W","X","Y","Z">>
Lower == <<"a","b","c","d","e","f","g","h","i","j","k","l","m",
           "n","o","p","q","r","s","t","u","v","w","x","y","z">>
Digits == <<"0","1","2","3","4","5","6","7","8","9">>

Range(s) == {s[i] : i \in DOMAIN s}

\* the class \s of the regular expressions (the characters the texts use)
Spaces == {" ", "\n", "\t", "\r"}

\* the class [.!?]
Delims == {".", "!", "?"}

IsSpace(c) == c \in Spaces

\* the class \w: letters, digits and the underscore
IsWordChar(c) == c \in Range(Upper) \cup Range(Lower) \cup Range(Digits) \cup {"_"}

toLowerChar(c) ==
  IF \E i \in DOMAIN Upper : Upper[i] = c
  THEN Lower[CHOOSE i \in DOMAIN Upper : Upper[i] = c]
  ELSE c

toLowerCase(s) == [i \in DOMAIN s |-> toLowerChar(s[i])]

RECURSIVE TrimStart(_)
TrimStart(s) ==
  IF s = <<>> THEN <<>>
  ELSE IF IsSpace(Head(s)) THEN TrimStart(Tail(s)) ELSE s

RECURSIVE TrimEnd(_)
TrimEnd(s) ==
  IF s = <<>> THEN <<>>
  ELSE IF IsSpace(s[Len(s)]) THEN TrimEnd(SubSeq(s, 1, Len(s) - 1)) ELSE s

trim(s) == TrimEnd(TrimStart(s))

\* String.prototype.includes
includes(hay, needle) ==
  \E i \in 0..(Len(hay) - Len(needle)) : SubSeq(hay, i + 1, i + Len(needle)) = needle

\* Array.prototype.join on strings
RECURSIVE join(_, _)
join(parts, sep) ==
  IF parts = <<>> THEN <<>>
  ELSE IF Len(parts) = 1 THEN parts[1]
  ELSE parts[1] \o sep \o join(Tail(parts), sep)

\* Array.prototype.indexOf, 0-based, -1 when absent
indexOf(arr, x) ==
  IF \E i \in DOMAIN arr : arr[i] = x
  THEN (CHOOSE i \in DOMAIN arr : arr[i] = x /\ \A j \in 1..(i - 1) : arr[j] # x) - 1
  ELSE -1

\* Array.prototype.slice(0, n)
sliceTo(arr, n) == SubSeq(arr, 1, IF n < Len(arr) THEN n ELSE Len(arr))

\* the pieces of a string, from the pieces of its two halves: the last piece
\* of the left half continues in the first piece of the right half
MergePieces(left, right) ==
  SubSeq(left, 1, Len(left) - 1) \o <<left[Len(left)] \o right[1]>> \o Tail(right)

\* the pieces of s[lo..hi] between the characters of the set sep (one piece
\* more than there are separators, empty pieces included), computed by halves
RECURSIVE SplitFrom(_, _, _, _)
SplitFrom(s, sep, lo, hi) ==
  IF lo > hi THEN << <<>> >>
  ELSE IF lo = hi THEN (IF s[lo] \in sep THEN << <<>>, <<>> >> ELSE << <<s[lo]>> >>)
  ELSE MergePieces(SplitFrom(s, sep, lo, (lo + hi) \div 2),
                   SplitFrom(s, sep, (lo + hi) \div 2 + 1, hi))

\* String.prototype.split(/[sep]+/): a run of separators separates once, so
\* the only empty pieces are a first one (s starts with a separator) and a
\* last one (s ends with one)
splitRuns(s, sep) ==
  LET p == SplitFrom(s, sep, 1, Len(s))
      first == IF p[1] = <<>> THEN << <<>> >> ELSE <<>>
      last == IF Len(p) > 1 /\ p[Len(p)] = <<>> THEN << <<>> >> ELSE <<>>
  IN  first \o SelectSeq(p, LAMBDA piece : piece # <<>>) \o last

\* text.replace(/[^\w\s]/g, '')
stripNonWord(s) == SelectSeq(s, LAMBDA c : IsWordChar(c) \/ IsSpace(c))

\* text.split(/[.!?]+/).filter(s => s.trim().length > 0)
splitSentences(text) ==
  SelectSeq(splitRuns(text, Delims), LAMBDA s : Len(trim(s)) > 0)

(***************************************************************************)
(* A JavaScript object used as a map: the sequence of its [k, v] entries   *)
(* in insertion order.  Object.keys and Object.entries list the keys that  *)
(* are array indices first, in ascending numeric order, then the others in *)
(* insertion order.  Digit strings of up to 9 digits are covered.          *)
(***************************************************************************)
objHas(m, key) == \E i \in DOMAIN m : m[i].k = key

objGet(m, key) == m[CHOOSE i \in DOMAIN m : m[i].k = key].v

\* an existing key keeps its place in the insertion order when it is assigned
objReplace(m, key, val) ==
  LET i == CHOOSE j \in DOMAIN m : m[j].k = key
  IN  SubSeq(m, 1, i - 1) \o <<[k |-> key, v |-> val]>> \o SubSeq(m, i + 1, Len(m))

\* m[key] = (m[key] || 0) + by
objAdd(m, key, by) ==
  IF objHas(m, key)
  THEN objReplace(m, key, objGet(m, key) + by)
  ELSE Append(m, [k |-> key, v |-> by])

\* m[key] = val
objSet(m, key, val) ==
  IF objHas(m, key) THEN objReplace(m, key, val)
  ELSE Append(m, [k |-> key, v |-> val])

IsArrayIndex(key) ==
  /\ Len(key) \in 1..9
  /\ \A i \in DOMAIN key : key[i] \in Range(Digits)
  /\ (Len(key) = 1 \/ key[1] # "0")

RECURSIVE ToNat(_)
ToNat(key) ==
  IF key = <<>> THEN 0
  ELSE 10 * ToNat(SubSeq(key, 1, Len(key) - 1))
       + (CHOOSE d \in DOMAIN Digits : Digits[d] = key[Len(key)]) - 1

\* the entries in the order Object.entries lists them
objEntries(m) ==
  LET ints == {i \in DOMAIN m : IsArrayIndex(m[i].k)}
      strs == DOMAIN m \ ints
      nInts == Cardinality(ints)
      intRank(i) == Cardinality({j \in ints : ToNat(m[j].k) < ToNat(m[i].k)}) + 1
      strRank(i) == nInts + Cardinality({j \in strs : j < i}) + 1
      rank(i) == IF i \in ints THEN intRank(i) ELSE strRank(i)
  IN  IF ints = {} THEN m
      ELSE [p \in DOMAIN m |-> m[CHOOSE i \in DOMAIN m : rank(i) = p]]

objKeys(m) == LET e == objEntries(m) IN [i \in DOMAIN e |-> e[i].k]

\* {...a, ...b}: the entries of a, then those of b, a later one overwriting
RECURSIVE SpreadInto(_, _)
SpreadInto(acc, e) ==
  IF e = <<>> THEN acc
  ELSE SpreadInto(objSet(acc, Head(e).k, Head(e).v), Tail(e))

objSpread(a, b) == SpreadInto(SpreadInto(<<>>, objEntries(a)), objEntries(b))

\* entries.sort((a, b) => b[1] - a[1]): descending by value; the sort is
\* stable, entries of equal value keep their order
sortByValueDesc(e) ==
  LET before(j, i) == e[j].v > e[i].v \/ (e[j].v = e[i].v /\ j < i)
      rank(i) == Cardinality({j \in DOMAIN e : before(j, i)}) + 1
  IN  [p \in DOMAIN e |-> e[CHOOSE i \in DOMAIN e : rank(i) = p]]

(***************************************************************************)
(* extractKeyTerms, lines 221-270.                                         *)
(***************************************************************************)
stopWords ==
  {<<"t","h","e">>, <<"a">>, <<"a","n">>, <<"a","n","d">>, <<"o","r">>,
   <<"b","u","t">>, <<"i","s">>, <<"i","n">>, <<"i","t">>, <<"t","o">>,
   <<"i">>, <<"t","h","a","t">>, <<"h","a","d">>, <<"o","n">>,
   <<"f","o","r">>, <<"w","e","r","e">>, <<"w","a","s">>, <<"o","f">>,
   <<"b","e">>, <<"t","h","i","s">>, <<"w","i","t","h">>, <<"b","y">>,
   <<"a","s">>, <<"a","t">>, <<"f","r","o","m">>, <<"t","h","e","y">>,
   <<"a","r","e">>, <<"h","a","v","e">>, <<"h","a","s">>,
   <<"b","e","e","n">>, <<"n","o","t">>, <<"t","h","e","i","r">>,
   <<"t","h","e","r","e">>, <<"w","h","i","c","h">>, <<"w","h","e","n">>,
   <<"w","h","o">>, <<"w","h","a","t">>, <<"w","h","e","r","e">>,
   <<"w","h","y">>, <<"h","o","w">>, <<"a","l","l">>, <<"a","n","y">>,
   <<"b","o","t","h">>, <<"e","a","c","h">>, <<"f","e","w">>,
   <<"m","o","r","e">>, <<"m","o","s","t">>, <<"s","o","m","e">>,
   <<"s","u","c","h">>, <<"t","h","a","n">>, <<"t","o","o">>,
   <<"v","e","r","y">>, <<"c","a","n">>, <<"w","i","l","l">>,
   <<"j","u","s","t">>, <<"s","h","o","u","l","d">>, <<"n","o","w">>}

\* the number of terms kept: .slice(0, 20), line 266
TopTerms == 20

\* the weight of a trigram, line 256
TrigramWeight == 3

\* word.length > 3, lines 238, 246, 253
MinWordLen == 3

\* words.forEach(...), lines 237-241; loop is the loop's state: the index i
\* of the next word (1-based here) and the wordCounts object so far
RECURSIVE CountWords(_, _)
CountWords(words, loop) ==
  IF loop.i > Len(words) THEN loop.wordCounts
  ELSE CountWords(words,
         [i |-> loop.i + 1,
          wordCounts |->
            IF words[loop.i] \notin stopWords /\ Len(words[loop.i]) > MinWordLen
            THEN objAdd(loop.wordCounts, words[loop.i], 1)
            ELSE loop.wordCounts])

\* PhraseStep with a trigram counted 1, like a bigram
PhraseStepUnweighted(words, i, phrases) ==
  LET withBigram ==
        IF /\ Len(words[i]) > MinWordLen /\ Len(words[i + 1]) > MinWordLen
           /\ words[i] \notin stopWords /\ words[i + 1] \notin stopWords
        THEN objAdd(phrases, words[i] \o <<" ">> \o words[i + 1], 1)
        ELSE phrases
  IN  IF /\ i < Len(words) - 1
         /\ Len(words[i]) > MinWordLen /\ Len(words[i + 1]) > MinWordLen
         /\ Len(words[i + 2]) > MinWordLen
         /\ words[i] \notin stopWords /\ words[i + 2] \notin stopWords
      THEN objAdd(withBigram,
                  words[i] \o <<" ">> \o words[i + 1] \o <<" ">> \o words[i + 2], 1)
      ELSE withBigram

\* the body of the loop of lines 245-258 for one i (1-based here)
PhraseStep(words, i, phrases) ==
  LET withBigram ==
        IF /\ Len(words[i]) > MinWordLen /\ Len(words[i + 1]) > MinWordLen
           /\ words[i] \notin stopWords /\ words[i + 1] \notin stopWords
        THEN objAdd(phrases, words[i] \o <<" ">> \o words[i + 1], 1)
        ELSE phrases
  IN  IF /\ i < Len(words) - 1
         /\ Len(words[i]) > MinWordLen /\ Len(words[i + 1]) > MinWordLen
         /\ Len(words[i + 2]) > MinWordLen
         /\ words[i] \notin stopWords /\ words[i + 2] \notin stopWords
      THEN objAdd(withBigram,
                  words[i] \o <<" ">> \o words[i + 1] \o <<" ">> \o words[i + 2],
                  TrigramWeight)
      ELSE withBigram

\* for (let i = 0; i < words.length - 1; i++), lines 245-258; loop is the
\* loop's state: the index i and the phrases object so far
RECURSIVE CountPhrases(_, _)
CountPhrases(words, loop) ==
  IF loop.i > Len(words) - 1 THEN loop.phrases
  ELSE CountPhrases(words,
         [i |-> loop.i + 1, phrases |-> PhraseStep(words, loop.i, loop.phrases)])

extractKeyTerms(text) ==
  LET cleanText == stripNonWord(toLowerCase(text))
      words == SelectSeq(splitRuns(cleanText, Spaces), LAMBDA w : Len(w) > 0)
      wordCounts == CountWords(words, [i |-> 1, wordCounts |-> <<>>])
      phrases == CountPhrases(words, [i |-> 1, phrases |-> <<>>])
      combined == objSpread(wordCounts, phrases)
      sorted == sliceTo(sortByValueDesc(objEntries(combined)), TopTerms)
  IN  [i \in DOMAIN sorted |-> sorted[i].k]

(***************************************************************************)
(* generateSummary, lines 273-319.  The function reads the component's     *)
(* keyTerms state (line 292), not the terms of the current run, so the     *)
(* state is a parameter here.  Scores are kept doubled (3, 2, 1.5, 1 are   *)
(* 6, 4, 3, 2) to stay in the integers; the order of the scores is the     *)
(* same.                                                                   *)
(***************************************************************************)
\* the summary's least number of sentences, lines 277 and 306
MinSummary == 3

\* twice the score of lines 282-287 for the 0-based index among n sentences
\* (index < n * 0.1 is 10 * index < n, index > n * 0.8 is 10 * index > 8 * n)
positionScore2(index, n) ==
  IF index < 3 THEN 6
  ELSE IF 10 * index < n THEN 4
  ELSE IF 10 * index > 8 * n THEN 3
  ELSE 2

\* lines 290-298: the number of entries of the keyTerms state the sentence holds
termScore(sentence, stateKeyTerms) ==
  Cardinality({t \in DOMAIN stateKeyTerms :
                 includes(toLowerCase(sentence), stateKeyTerms[t])})

\* Math.max(Math.ceil(sentences.length * 0.25), 3), line 306
summaryLength(n) ==
  LET c == (n + 3) \div 4 IN IF c > MinSummary THEN c ELSE MinSummary

\* indexes.sort((a, b) => a - b), line 314
sortAscending(idx) ==
  LET rank(i) == Cardinality({j \in DOMAIN idx :
                     idx[j] < idx[i] \/ (idx[j] = idx[i] /\ j < i)}) + 1
  IN  [p \in DOMAIN idx |-> idx[CHOOSE i \in DOMAIN idx : rank(i) = p]]

\* topIndexes without the sort by original position of line 314
topIndexesByScore(sentences, stateKeyTerms) ==
  LET n == Len(sentences)
      indexedScores ==
        [i \in 1..n |->
           [k |-> i - 1,
            v |-> positionScore2(i - 1, n) * (termScore(sentences[i], stateKeyTerms) + 1)]]
      top == sliceTo(sortByValueDesc(indexedScores), summaryLength(n))
  IN  [i \in DOMAIN top |-> top[i].k]

\* lines 301-314: the 0-based indexes of the selected sentences
topIndexes(sentences, stateKeyTerms) ==
  LET n == Len(sentences)
      indexedScores ==
        [i \in 1..n |->
           [k |-> i - 1,
            v |-> positionScore2(i - 1, n) * (termScore(sentences[i], stateKeyTerms) + 1)]]
      top == sliceTo(sortByValueDesc(indexedScores), summaryLength(n))
  IN  sortAscending([i \in DOMAIN top |-> top[i].k])

generateSummary(text, stateKeyTerms) ==
  LET sentences == splitSentences(text)
  IN  IF Len(sentences) <= MinSummary
      THEN join(sentences, <<".", " ">>) \o <<".">>
      ELSE LET idx == topIndexes(sentences, stateKeyTerms)
           IN  join([i \in DOMAIN idx |-> sentences[idx[i] + 1]], <<".", " ">>) \o <<".">>

(***************************************************************************)
(* generateMCQs, lines 321-397.  _.shuffle is the parameter shuffle: for   *)
(* the question of each 0-based index, the permutation drawn (position p   *)
(* of the shuffled array holds option shuffle[index][p] of the original).  *)
(***************************************************************************)
\* Math.min(keyTerms.length, 10), line 324
MaxQuestions == 10

\* the texts appended to the term in the distractors, lines 366-368, 377-379
Unrelated ==
  <<" ","r","e","f","e","r","s"," ","t","o"," ","a","n"," ","u","n","r","e",
    "l","a","t","e","d"," ","c","o","n","c","e","p","t"," ","n","o","t"," ",
    "c","o","v","e","r","e","d"," ","i","n"," ","t","h","i","s"," ","d","o",
    "c","u","m","e","n","t",".">>

Contradictory ==
  <<" ","i","s"," ","a"," ","c","o","n","t","r","a","d","i","c","t","o","r",
    "y"," ","e","l","e","m","e","n","t"," ","i","n"," ","t","h","e"," ","d",
    "o","c","u","m","e","n","t",".">>

NotSignificant ==
  <<" ","i","s"," ","m","e","n","t","i","o","n","e","d"," ","b","u","t"," ",
    "n","o","t"," ","s","i","g","n","i","f","i","c","a","n","t"," ","t","o",
    " ","t","h","e"," ","m","a","i","n"," ","t","o","p","i","c",".">>

NotRelevant ==
  <<" ","i","s"," ","n","o","t"," ","r","e","l","e","v","a","n","t"," ","t",
    "o"," ","t","h","e"," ","m","a","i","n"," ","s","u","b","j","e","c","t",
    " ","o","f"," ","t","h","i","s"," ","d","o","c","u","m","e","n","t",".">>

Opposing ==
  <<" ","r","e","p","r","e","s","e","n","t","s"," ","a","n"," ","o","p","p",
    "o","s","i","n","g"," ","v","i","e","w","p","o","i","n","t"," ","t","o",
    " ","t","h","e"," ","d","o","c","u","m","e","n","t","'","s"," ","m","a",
    "i","n"," ","a","r","g","u","m","e","n","t",".">>

MinorConcept ==
  <<" ","i","s"," ","a"," ","m","i","n","o","r"," ","c","o","n","c","e","p",
    "t"," ","t","h","a","t"," ","a","p","p","e","a","r","s"," ","o","n","l",
    "y"," ","o","n","c","e"," ","i","n"," ","t","h","e"," ","d","o","c","u",
    "m","e","n","t",".">>

\* keyTerms.forEach(...), lines 329-336
RECURSIVE FindTermSentences(_, _, _, _)
FindTermSentences(sentences, keys, i, termSentences) ==
  IF i > Len(keys) THEN termSentences
  ELSE LET matchingSentences ==
             SelectSeq(sentences,
                       LAMBDA s : includes(toLowerCase(s), toLowerCase(keys[i])))
       IN  FindTermSentences(sentences, keys, i + 1,
             IF Len(matchingSentences) > 0
             THEN objSet(termSentences, keys[i], matchingSentences)
             ELSE termSentences)

\* term.split(' ').length > 1, line 361
IsPhrase(term) == \E i \in DOMAIN term : term[i] = " "

\* the options before the shuffle, lines 364-369 and 375-380
buildOptions(term, targetSentence) ==
  IF IsPhrase(term)
  THEN <<trim(targetSentence), term \o Unrelated, term \o Contradictory,
         term \o NotSignificant>>
  ELSE <<trim(targetSentence), term \o NotRelevant, term \o Opposing,
         term \o MinorConcept>>

\* draftQuestion's result with the draws of a run applied; lines 384-393
\* with correctAnswer left at the index before the shuffle
shuffleQuestionStaleIndex(draft, perm) ==
  [id |-> draft.id,
   question |-> draft.question,
   options |-> [p \in DOMAIN draft.options |-> draft.options[perm[p]]],
   correctAnswer |-> draft.correctAnswer,
   context |-> draft.context]

\* lines 340-381 for one selected term, up to the shuffle; index is 0-based
draftQuestion(sentences, termSentences, term, index) ==
  LET relatedSentences == objGet(termSentences, term)
      targetSentence == relatedSentences[1]
      sentenceIndex == indexOf(sentences, targetSentence)
      context ==
        IF sentenceIndex > 0 /\ sentenceIndex < Len(sentences) - 1
        THEN sentences[sentenceIndex] \o <<".", " ">> \o targetSentence
             \o <<".", " ">> \o sentences[sentenceIndex + 2]
        ELSE targetSentence
  IN  [id |-> index + 1,
       question |-> [about |-> term,
                     template |-> IF IsPhrase(term) THEN "describes" ELSE "is true about"],
       options |-> buildOptions(term, targetSentence),
       correctAnswer |-> 0,
       context |-> context]

\* lines 384-393: the options shuffled by perm and the new index of the
\* option that was at correctAnswer
shuffleQuestion(draft, perm) ==
  LET shuffledOptions == [p \in DOMAIN draft.options |-> draft.options[perm[p]]]
      newCorrectIndex == indexOf(shuffledOptions, draft.options[draft.correctAnswer + 1])
  IN  [id |-> draft.id,
       question |-> draft.question,
       options |-> shuffledOptions,
       correctAnswer |-> newCorrectIndex,
       context |-> draft.context]

\* draftMCQs with the first questionsCount key terms taken before the terms
\* without a matching sentence are dropped
draftMCQsSliceFirst(text, keys) ==
  LET sentences == splitSentences(text)
      questionsCount == IF Len(keys) < MaxQuestions THEN Len(keys) ELSE MaxQuestions
      termSentences ==
        FindTermSentences(sentences, sliceTo(keys, questionsCount), 1, <<>>)
      selectedTerms == objKeys(termSentences)
  IN  [i \in DOMAIN selectedTerms |->
         draftQuestion(sentences, termSentences, selectedTerms[i], i - 1)]

\* lines 323-381: the questions before their options are shuffled
draftMCQs(text, keys) ==
  LET sentences == splitSentences(text)
      questionsCount == IF Len(keys) < MaxQuestions THEN Len(keys) ELSE MaxQuestions
      termSentences == FindTermSentences(sentences, keys, 1, <<>>)
      selectedTerms == sliceTo(objKeys(termSentences), questionsCount)
  IN  [i \in DOMAIN selectedTerms |->
         draftQuestion(sentences, termSentences, selectedTerms[i], i - 1)]

\* lines 383-394 for every question
shuffleMCQs(drafts, shuffle) ==
  [i \in DOMAIN drafts |-> shuffleQuestion(drafts[i], shuffle[i - 1])]

generateMCQs(text, keys, shuffle) == shuffleMCQs(draftMCQs(text, keys), shuffle)

(***************************************************************************)
(* generateQnA, lines 399-471.                                             *)
(***************************************************************************)
\* keyTerms.slice(0, 8), line 424
MaxQnATerms == 8

\* sentence.length < 20, line 410
ShortSentence == 20

\* sentences.length > 5, line 452
MainTopicOver == 5

\* sentences.length > 10, line 461
ConclusionOver == 10

\* the question variants, lines 436-441 (the text around the term)
questionVariants ==
  <<"What is explained about _ in the document?",
    "How does the document describe _?",
    "What information does the document provide about _?",
    "What role does _ play according to the text?">>

\* sentences.forEach(...), lines 407-421; st is [paragraphs, currentParagraph]
RECURSIVE GroupParagraphs(_, _, _)
GroupParagraphs(sentences, i, st) ==
  IF i > Len(sentences)
  THEN IF Len(st.currentParagraph) > 0
       THEN Append(st.paragraphs, st.currentParagraph)
       ELSE st.paragraphs
  ELSE LET cur == Append(st.currentParagraph, sentences[i])
       IN  GroupParagraphs(sentences, i + 1,
             IF "\n" \in Range(sentences[i]) \/ Len(sentences[i]) < ShortSentence
             THEN [paragraphs |-> Append(st.paragraphs, cur), currentParagraph |-> <<>>]
             ELSE [paragraphs |-> st.paragraphs, currentParagraph |-> cur])

\* keyTerms.slice(0, 8).forEach(...), lines 424-449; termIndex is 0-based
RECURSIVE TermQuestions(_, _, _, _)
TermQuestions(paragraphs, keys, termIndex, result) ==
  IF termIndex >= Len(keys) THEN result
  ELSE LET term == keys[termIndex + 1]
           relevantParagraphs ==
             SelectSeq(paragraphs,
                       LAMBDA para : \E s \in DOMAIN para :
                                        includes(toLowerCase(para[s]), toLowerCase(term)))
       IN  TermQuestions(paragraphs, keys, termIndex + 1,
             IF Len(relevantParagraphs) > 0
             THEN Append(result,
                    [id |-> termIndex + 1,
                     question |-> [about |-> term,
                                   template |->
                                     questionVariants[(termIndex % Len(questionVariants)) + 1]],
                     answer |-> trim(join(relevantParagraphs[1], <<" ">>))])
             ELSE result)

\* Array.prototype.slice(-3)
sliceLast(arr, n) ==
  SubSeq(arr, IF Len(arr) > n THEN Len(arr) - n + 1 ELSE 1, Len(arr))

\* generateQnA with the general questions added from 5 and from 10 sentences
\* on (>= for > in lines 452 and 461)
generateQnAInclusive(text, keys) ==
  LET sentences == splitSentences(text)
      paragraphs ==
        GroupParagraphs(sentences, 1, [paragraphs |-> <<>>, currentParagraph |-> <<>>])
      termBased == TermQuestions(paragraphs, sliceTo(keys, MaxQnATerms), 0, <<>>)
      withMain ==
        Append(termBased,
               [id |-> Len(termBased) + 1,
                question |-> [about |-> <<>>, template |-> "main topic"],
                answer |-> join(sliceTo(sentences, 3), <<" ">>)])
  IN  IF Len(sentences) >= MainTopicOver
      THEN IF Len(sentences) >= ConclusionOver
           THEN Append(withMain,
                  [id |-> Len(withMain) + 1,
                   question |-> [about |-> <<>>, template |-> "conclusion"],
                   answer |-> join(sliceLast(sentences, 3), <<" ">>)])
           ELSE withMain
      ELSE termBased

\* text.split(/[.!?]+/).filter(...), line 400, then the general questions of
\* lines 451-468
generateQnA(text, keys) ==
  LET sentences == splitSentences(text)
      paragraphs ==
        GroupParagraphs(sentences, 1, [paragraphs |-> <<>>, currentParagraph |-> <<>>])
      termBased == TermQuestions(paragraphs, sliceTo(keys, MaxQnATerms), 0, <<>>)
      withMain ==
        Append(termBased,
               [id |-> Len(termBased) + 1,
                question |-> [about |-> <<>>, template |-> "main topic"],
                answer |-> join(sliceTo(sentences, 3), <<" ">>)])
  IN  IF Len(sentences) > MainTopicOver
      THEN IF Len(sentences) > ConclusionOver
           THEN Append(withMain,
                  [id |-> Len(withMain) + 1,
                   question |-> [about |-> <<>>, template |-> "conclusion"],
                   answer |-> join(sliceLast(sentences, 3), <<" ">>)])
           ELSE withMain
      ELSE termBased

(***************************************************************************)
(* The component, lines 12-25 and 130-218.  st is the record of the state  *)
(* hooks; the handlers are functions from st to the st they leave.         *)
(***************************************************************************)
\* the number of handleFileUpload invocations followed
MaxUploads == 3

Uploads == 1..MaxUploads

\* validTypes with image files accepted as well
validTypesWithImages ==
  {"text/plain", "application/pdf",
   "application/vnd.openxmlformats-officedocument.wordprocessingml.document",
   "text/csv", "image/png"}

\* lines 145-150
validTypes ==
  {"text/plain", "application/pdf",
   "application/vnd.openxmlformats-officedocument.wordprocessingml.document",
   "text/csv"}

\* the File objects a user can choose: the supported types, an image, and a
\* file whose type the browser does not know
Files == [type : validTypes \cup {"image/png", ""}]

\* the reasons extractTextFromFile rejects with, lines 76-79, 106-108, 116, 125
ExtractionErrors == {"File reading failed", "PDF extraction failed: Invalid PDF structure"}

UnsupportedMessage == "Please upload a text, PDF, Word document, or CSV file"

\* line 14 destructures the state value, not the setter: setFileContent is
\* the string '', and calling it (line 175) throws this TypeError
setFileContentIsFunction == FALSE

NotAFunctionMessage == "setFileContent is not a function"

\* the permutations _.shuffle can return for 4 options, in lexicographic order
PermSeq ==
  <<
    <<1,2,3,4>>, <<1,2,4,3>>, <<1,3,2,4>>, <<1,3,4,2>>,
    <<1,4,2,3>>, <<1,4,3,2>>, <<2,1,3,4>>, <<2,1,4,3>>,
    <<2,3,1,4>>, <<2,3,4,1>>, <<2,4,1,3>>, <<2,4,3,1>>,
    <<3,1,2,4>>, <<3,1,4,2>>, <<3,2,1,4>>, <<3,2,4,1>>,
    <<3,4,1,2>>, <<3,4,2,1>>, <<4,1,2,3>>, <<4,1,3,2>>,
    <<4,2,1,3>>, <<4,2,3,1>>, <<4,3,1,2>>, <<4,3,2,1>> >>

Perms4 == Range(PermSeq)

\* how much the permutation drawn may change from one question to the next
MaxStride == 1

\* the shuffle outcomes followed: question i draws permutation k + i * stride
Shuffles ==
  {[i \in 0..(MaxQuestions - 1) |->
      PermSeq[((k + i * stride) % Len(PermSeq)) + 1]] :
     k \in 0..(Len(PermSeq) - 1), stride \in 0..MaxStride}

st == [file |-> file, isLoading |-> isLoading, summary |-> summary, mcqs |-> mcqs,
       qna |-> qna, errorMessage |-> errorMessage, uploadProgress |-> uploadProgress,
       processingStage |-> processingStage, keyTerms |-> keyTerms]

\* the state hooks take the values of next
Commit(next) ==
  \E s \in {next} :
    /\ file' = s.file
    /\ isLoading' = s.isLoading
    /\ summary' = s.summary
    /\ mcqs' = s.mcqs
    /\ qna' = s.qna
    /\ errorMessage' = s.errorMessage
    /\ uploadProgress' = s.uploadProgress
    /\ processingStage' = s.processingStage
    /\ keyTerms' = s.keyTerms

\* lines 12-25
InitialState ==
  [file |-> <<>>, isLoading |-> FALSE, summary |-> <<>>, mcqs |-> <<>>, qna |-> <<>>,
   errorMessage |-> "", uploadProgress |-> 0, processingStage |-> "",
   keyTerms |-> <<>>]

IdleUpload ==
  [pc |-> "idle", file |-> <<>>, timer |-> FALSE, closureKeyTerms |-> <<>>,
   outcome |-> "none", text |-> <<>>]

\* lines 132-139
resetAll(s) ==
  [s EXCEPT !.errorMessage = "", !.uploadProgress = 0, !.processingStage = "",
            !.summary = <<>>, !.mcqs = <<>>, !.qna = <<>>, !.keyTerms = <<>>]

\* lines 152-155
rejectUnsupported(s) == [s EXCEPT !.errorMessage = UnsupportedMessage]

\* lines 157-158 and 173
beginUpload(s, f) ==
  [s EXCEPT !.file = <<f>>, !.isLoading = TRUE, !.processingStage = "Extracting text..."]

\* the values the stages of lines 193-208 compute, the questions before
\* their shuffle.  generateSummary reads the keyTerms of the render the
\* handler was created in (stateKeyTerms), not `terms`.
stageResults(text, stateKeyTerms) ==
  LET localTerms == extractKeyTerms(text)
  IN  [terms |-> localTerms,
       summary |-> generateSummary(text, stateKeyTerms),
       drafts |-> draftMCQs(text, localTerms),
       qna |-> generateQnA(text, localTerms)]

\* the setters of lines 194-212
storeResults(s, r, shuffle) ==
  [s EXCEPT !.keyTerms = r.terms,
            !.summary = r.summary,
            !.mcqs = shuffleMCQs(r.drafts, shuffle),
            !.qna = r.qna,
            !.isLoading = FALSE,
            !.processingStage = ""]

\* lines 189-218.  The stages are total on strings, so the catch of lines
\* 213-217 is never entered.
processDocument(s, text, stateKeyTerms, shuffle) ==
  storeResults(s, stageResults(text, stateKeyTerms), shuffle)

\* the catch of lines 182-186 without its setIsLoading(false)
catchUploadErrorKeepsLoading(s, message) == [s EXCEPT !.errorMessage = message]

\* lines 182-186
catchUploadError(s, message) ==
  [s EXCEPT !.errorMessage = message, !.isLoading = FALSE]

\* afterExtraction with the failing call of line 175 moved behind line 181
afterExtractionProcessFirst(s, text, stateKeyTerms, shuffle) ==
  IF setFileContentIsFunction
  THEN processDocument([s EXCEPT !.uploadProgress = 100], text, stateKeyTerms, shuffle)
  ELSE catchUploadError(
         processDocument([s EXCEPT !.uploadProgress = 100], text, stateKeyTerms, shuffle),
         NotAFunctionMessage)

\* lines 175-186, after extractTextFromFile resolved with text
afterExtraction(s, text, stateKeyTerms, shuffle) ==
  IF setFileContentIsFunction
  THEN processDocument([s EXCEPT !.uploadProgress = 100], text, stateKeyTerms, shuffle)
  ELSE catchUploadError(s, NotAFunctionMessage)

\* the file input rendered whatever the state is
FileInputAlwaysRendered == TRUE

\* lines 522-537: the file input is rendered only while no file is stored
\* and nothing is loading
FileInputRendered == file = <<>> /\ ~isLoading

\* the texts a file's extraction resolves with in the component
cats == <<"c","a","t","s">>
Dogs == <<"D","o","g","s">>
fish == <<"f","i","s","h">>
bird == <<"b","i","r","d">>
lion == <<"l","i","o","n">>
wolf == <<"w","o","l","f">>
year == <<"2","0","2","4">>
frog == <<"f","r","o","g">>
an == <<"a","n">>
the == <<"t","h","e">>
SP == <<" ">>
DOT == <<".">>
NL == <<"\n">>

ComponentTexts ==
  {cats \o SP \o Dogs \o DOT \o SP \o fish \o DOT,
   an \o DOT \o an \o DOT \o an \o DOT \o SP \o cats \o SP \o Dogs \o SP \o fish
      \o DOT \o an,
   <<>>}

\* handleFileUpload up to its first await (lines 130-174); chosen is
\* event.target.files: <<>> or <<the File>>
HandleFileUpload(a, chosen) ==
  /\ uploads[a].pc = "idle"
  /\ \A b \in 1..(a - 1) : uploads[b].pc # "idle"
  /\ FileInputRendered
  /\ IF chosen = <<>>
     THEN /\ Commit(resetAll(st))
          /\ uploads' = [uploads EXCEPT ![a].pc = "noFile"]
     ELSE IF chosen[1].type \notin validTypes
     THEN /\ Commit(rejectUnsupported(resetAll(st)))
          /\ uploads' = [uploads EXCEPT ![a].pc = "rejected", ![a].file = chosen]
     ELSE /\ Commit(beginUpload(resetAll(st), chosen[1]))
          /\ uploads' = [uploads EXCEPT ![a].pc = "extracting", ![a].file = chosen,
                                        ![a].timer = TRUE,
                                        ![a].closureKeyTerms = keyTerms]
  /\ UNCHANGED <<doc, terms, pc>>

\* the setInterval callback stopping at 100 (prev >= 100 for prev >= 95)
ProgressTickTo100(a) ==
  /\ uploads[a].timer
  /\ IF uploadProgress >= 100
     THEN /\ uploadProgress' = 100
          /\ uploads' = [uploads EXCEPT ![a].timer = FALSE]
     ELSE /\ uploadProgress' = uploadProgress + 5
          /\ UNCHANGED uploads
  /\ UNCHANGED <<file, isLoading, summary, mcqs, qna, errorMessage, processingStage,
                 keyTerms, doc, terms, pc>>

\* the setInterval callback, lines 161-169
ProgressTick(a) ==
  /\ uploads[a].timer
  /\ IF uploadProgress >= 95
     THEN /\ uploadProgress' = 95
          /\ uploads' = [uploads EXCEPT ![a].timer = FALSE]
     ELSE /\ uploadProgress' = uploadProgress + 5
          /\ UNCHANGED uploads
  /\ UNCHANGED <<file, isLoading, summary, mcqs, qna, errorMessage, processingStage,
                 keyTerms, doc, terms, pc>>

\* extractTextFromFile resolves (line 75) and handleFileUpload resumes at
\* line 175
ExtractionResolves(a, text) ==
  /\ uploads[a].pc = "extracting"
  /\ \E shuffle \in Shuffles :
       Commit(afterExtraction(st, text, uploads[a].closureKeyTerms, shuffle))
  /\ uploads' = [uploads EXCEPT ![a].pc = "ended", ![a].timer = FALSE,
                                ![a].outcome = "resolved", ![a].text = text]
  /\ UNCHANGED <<doc, terms, pc>>

\* extractTextFromFile rejects (lines 76-79) and the catch of lines 182-186 runs
ExtractionRejects(a, reason) ==
  /\ uploads[a].pc = "extracting"
  /\ Commit(catchUploadError(st,
        "Failed to extract text from " \o uploads[a].file[1].type \o " file: " \o reason))
  /\ uploads' = [uploads EXCEPT ![a].pc = "ended", ![a].timer = FALSE,
                                ![a].outcome = "rejected"]
  /\ UNCHANGED <<doc, terms, pc>>

\* the state hooks hold the values of s
Holds(s) ==
  /\ file = s.file
  /\ isLoading = s.isLoading
  /\ summary = s.summary
  /\ mcqs = s.mcqs
  /\ qna = s.qna
  /\ errorMessage = s.errorMessage
  /\ uploadProgress = s.uploadProgress
  /\ processingStage = s.processingStage
  /\ keyTerms = s.keyTerms

Init ==
  /\ Holds(InitialState)
  /\ uploads = [a \in Uploads |-> IdleUpload]
  /\ doc = <<>>
  /\ terms = <<>>
  /\ pc = "component"

Next ==
  \/ \E a \in Uploads, chosen \in {<<>>} \cup {<<f>> : f \in Files} :
       HandleFileUpload(a, chosen)
  \/ \E a \in Uploads : ProgressTick(a)
  \/ \E a \in Uploads, text \in ComponentTexts : ExtractionResolves(a, text)
  \/ \E a \in Uploads, reason \in ExtractionErrors : ExtractionRejects(a, reason)

Spec == Init /\ [][Next]_vars

(***************************************************************************)
(* Properties of the component, checked under Spec.                        *)
(***************************************************************************)
\* the four MIME types the specification names as supported
SupportedMime ==
  {"text/plain", "text/csv", "application/pdf",
   "application/vnd.openxmlformats-officedocument.wordprocessingml.document"}

OutputsEmpty == summary = <<>> /\ mcqs = <<>> /\ qna = <<>> /\ keyTerms = <<>>

\* the latest handleFileUpload invocation, 0 when there was none
LastUpload ==
  IF \E a \in Uploads : uploads[a].pc # "idle"
  THEN CHOOSE a \in Uploads :
         uploads[a].pc # "idle" /\ \A b \in Uploads : b > a => uploads[b].pc = "idle"
  ELSE 0

\* C1: when the extraction of a supported file has resolved, the pipeline
\* has run on the extracted text: key terms, summary, MCQs and Q&A are
\* stored, isLoading is false and errorMessage is empty.
C1_PipelineRanOnExtractedText ==
  \A a \in Uploads :
    (uploads[a].pc = "ended" /\ uploads[a].outcome = "resolved") =>
      /\ ~isLoading
      /\ errorMessage = ""
      /\ keyTerms = extractKeyTerms(uploads[a].text)
      /\ summary = generateSummary(uploads[a].text, uploads[a].closureKeyTerms)
      /\ \E shuffle \in Shuffles :
           mcqs = generateMCQs(uploads[a].text, extractKeyTerms(uploads[a].text), shuffle)
      /\ qna = generateQnA(uploads[a].text, extractKeyTerms(uploads[a].text))

\* C6: when the latest upload attempt has ended in an error (unsupported
\* type, extraction failure or processing failure), the file input that
\* triggers handleFileUpload is rendered, so a new attempt can start.
C6_InputRenderedAfterError ==
  (/\ LastUpload # 0
   /\ uploads[LastUpload].pc \in {"rejected", "ended"}
   /\ errorMessage # "") => FileInputRendered

C9_UnsupportedRejected ==
  [][\A a \in Uploads :
       /\ (/\ uploads[a].pc = "idle" /\ uploads'[a].pc # "idle"
           /\ uploads'[a].file # <<>>
           /\ uploads'[a].file[1].type \notin SupportedMime)
          => /\ uploads'[a].pc = "rejected"
             /\ errorMessage' = UnsupportedMessage
             /\ file' = file
             /\ ~isLoading'
             /\ ~uploads'[a].timer
             /\ uploadProgress' = 0
             /\ summary' = <<>> /\ mcqs' = <<>> /\ qna' = <<>> /\ keyTerms' = <<>>
       /\ uploads[a].pc = "rejected"
          => uploads'[a].pc = "rejected" /\ ~uploads'[a].timer]_vars

\* an upload of an unsupported type has been rejected
C9_Witness ==
  \E a \in Uploads :
    /\ uploads[a].pc = "rejected"
    /\ uploads[a].file[1].type \notin SupportedMime
    /\ errorMessage = UnsupportedMessage
    /\ file = <<>>

\* a handleFileUpload can start: the change event of the file input can fire
UploadCanStart ==
  ENABLED (\E b \in Uploads, chosen \in {<<>>} \cup {<<f>> : f \in Files} :
             HandleFileUpload(b, chosen))

\* C12, as stated: while an upload awaits its extraction, a second
\* handleFileUpload can start (and the first would then write after the
\* second's reset).
C12_SecondUploadCanStart ==
  \A a \in Uploads :
    (a < MaxUploads /\ uploads[a].pc = "extracting") => UploadCanStart

\* C12, amended: while an upload awaits its extraction the file input is not
\* rendered (file is set and isLoading is true), so no handleFileUpload can
\* start; at most one upload is in flight, and an upload that got as far as
\* its extraction is never followed by another upload's reset, so its results
\* or its error are never written after a later reset.
C12_OneUploadInFlight ==
  \A a \in Uploads :
    uploads[a].pc \in {"extracting", "ended"} =>
      /\ file # <<>>
      /\ ~FileInputRendered
      /\ ~UploadCanStart
      /\ uploads[a].pc = "extracting" => isLoading
      /\ \A b \in Uploads : b > a => uploads[b].pc = "idle"

\* a second attempt (after one that chose an unsupported file) awaits its
\* extraction, with attempts left that the user could make
C12_Witness ==
  \E a \in Uploads :
    /\ 1 < a /\ a < MaxUploads
    /\ uploads[1].pc = "rejected"
    /\ uploads[a].pc = "extracting"
    /\ isLoading

\* the promise of extractTextFromFile settles: the handler of some upload
\* resumes after its await of line 174
Settles ==
  \/ \E a \in Uploads, text \in ComponentTexts : ExtractionResolves(a, text)
  \/ \E a \in Uploads, reason \in ExtractionErrors : ExtractionRejects(a, reason)

\* the component under the assumption that a pending extraction settles
SpecSettling == Spec /\ WF_vars(Settles)

\* C13: an upload attempt that set isLoading to true (it awaits extraction)
\* eventually ends with isLoading false, whether extraction resolves or
\* rejects; an ended attempt leaves isLoading false, and one whose extraction
\* failed leaves a non-empty errorMessage.
C13_LoadingEnds ==
  /\ [](\A a \in Uploads :
          /\ uploads[a].pc = "extracting" => isLoading
          /\ uploads[a].pc = "ended" =>
                /\ ~isLoading
                /\ uploads[a].outcome = "rejected" => errorMessage # "")
  /\ \A a \in Uploads :
       (uploads[a].pc = "extracting" /\ isLoading)
         ~> (uploads[a].pc = "ended" /\ ~isLoading)

\* an attempt whose extraction rejected has ended: the loading state is reset
\* and the wrapped error is shown
C13_Witness ==
  \E a \in Uploads :
    /\ uploads[a].pc = "ended"
    /\ uploads[a].outcome = "rejected"
    /\ ~isLoading
    /\ errorMessage =
         "Failed to extract text from " \o uploads[a].file[1].type
           \o " file: File reading failed"

\* C14: uploadProgress is always a multiple of 5 from 0 to 100; a tick of the
\* progress timer never leaves it above 95; an ended upload attempt has its
\* timer cleared, no timer runs any more, and from then on uploadProgress
\* does not change.
C14_ProgressBoundedAndTimerCleared ==
  /\ [](/\ uploadProgress \in {5 * k : k \in 0..20}
        /\ \A a \in Uploads :
             uploads[a].pc = "ended" => \A b \in Uploads : ~uploads[b].timer)
  /\ [][/\ (\E a \in Uploads : ProgressTick(a)) => uploadProgress' <= 95
        /\ (\E a \in Uploads : uploads[a].pc = "ended")
             => uploadProgress' = uploadProgress]_vars

\* an attempt ended while its timer was still running (progress below 95):
\* the timer is cleared and the progress stays where the last tick left it
C14_Witness ==
  \E a \in Uploads :
    /\ uploads[a].pc = "ended"
    /\ ~uploads[a].timer
    /\ uploadProgress \in 5..90

(***************************************************************************)
(* The pipeline functions applied one at a time to a document doc: the     *)
(* component's state is the initial one apart from what the specification  *)
(* at hand draws, terms is the result of extractKeyTerms.                  *)
(***************************************************************************)
\* the component is in state s and the function under check gets text
PipelineInit(s, text) ==
  /\ Holds(s)
  /\ uploads = [a \in Uploads |-> IdleUpload]
  /\ doc = text
  /\ terms = <<>>
  /\ pc = "ready"

\* const terms = extractKeyTerms(text), line 193
StepTerms ==
  /\ pc = "ready"
  /\ terms' = extractKeyTerms(doc)
  /\ pc' = "terms"
  /\ UNCHANGED <<file, isLoading, summary, mcqs, qna, errorMessage, uploadProgress,
                 processingStage, keyTerms, uploads, doc>>

\* setSummary(generateSummary(text)), lines 198-199
StepSummary ==
  /\ pc = "ready"
  /\ summary' = generateSummary(doc, keyTerms)
  /\ pc' = "summary"
  /\ UNCHANGED <<file, isLoading, mcqs, qna, errorMessage, uploadProgress,
                 processingStage, keyTerms, uploads, doc, terms>>

\* setMcqs(generateMCQs(text, terms)), lines 203-204
StepMCQs ==
  /\ pc = "terms"
  /\ \E drafts \in {draftMCQs(doc, terms)}, shuffle \in Shuffles :
       mcqs' = shuffleMCQs(drafts, shuffle)
  /\ pc' = "mcqs"
  /\ UNCHANGED <<file, isLoading, summary, qna, errorMessage, uploadProgress,
                 processingStage, keyTerms, uploads, doc, terms>>

\* setQna(generateQnA(text, terms)), lines 208-209
StepQnA ==
  /\ pc = "terms"
  /\ qna' = generateQnA(doc, terms)
  /\ pc' = "qna"
  /\ UNCHANGED <<file, isLoading, summary, mcqs, errorMessage, uploadProgress,
                 processingStage, keyTerms, uploads, doc, terms>>

\* parts[1] \o ... \o parts[n]
RECURSIVE Concat(_)
Concat(parts) == IF parts = <<>> THEN <<>> ELSE Head(parts) \o Concat(Tail(parts))

(***************************************************************************)
(* SpecTerms: extractKeyTerms on a word repeated n times.                  *)
(***************************************************************************)
\* the most repetitions of the word
MaxRepeat == 21

RepeatWords == {cats, Dogs, year, the, an, <<"f","u","r">>, <<"W","i","t","h">>}

RepeatSeps == {SP, NL, <<".", " ">>, <<",", " ", " ">>}

\* w sep w sep ... w, n times w
RepeatText(w, n, sep) == join([i \in 1..n |-> w], sep)

InitTerms ==
  \E w \in RepeatWords, n \in 1..MaxRepeat, sep \in RepeatSeps :
    PipelineInit(InitialState, RepeatText(w, n, sep))

SpecTerms == InitTerms /\ [][StepTerms]_vars

\* C4 as stated: for a text that is one word (longer than 3 characters, no
\* stop word) repeated 21 times, extractKeyTerms returns exactly that word.
C4_OnlyTheWord ==
  \A w \in RepeatWords, sep \in RepeatSeps :
    (/\ pc = "terms"
     /\ doc = RepeatText(w, 21, sep)
     /\ Len(w) > 3 /\ toLowerCase(w) \notin stopWords)
    => terms = <<toLowerCase(w)>>

\* C4, amended: for a text that is one word (longer than 3 characters, no
\* stop word) repeated 21 times, extractKeyTerms returns three terms, in this
\* order: the trigram "w w w", the word w, and the bigram "w w" (lowercased).
C4_WordAndItsPhrases ==
  \A w \in RepeatWords, sep \in RepeatSeps :
    (/\ pc = "terms"
     /\ doc = RepeatText(w, 21, sep)
     /\ Len(w) > 3 /\ toLowerCase(w) \notin stopWords)
    => LET lw == toLowerCase(w)
       IN  terms = <<lw \o SP \o lw \o SP \o lw, lw, lw \o SP \o lw>>

\* extractKeyTerms has run on a qualifying word repeated 21 times
C4_Witness ==
  \E w \in RepeatWords, sep \in RepeatSeps :
    /\ pc = "terms"
    /\ doc = RepeatText(w, 21, sep)
    /\ Len(w) > 3 /\ toLowerCase(w) \notin stopWords
    /\ w # toLowerCase(w)

(***************************************************************************)
(* SpecSummary: generateSummary on texts of n sentences, with the keyTerms *)
(* state an earlier document can have left.                                *)
(***************************************************************************)
\* the most sentences of a text
MaxSentences == 13

\* the text of n sentences whose sentences of index in marked hold key terms
SummaryText(n, marked) ==
  Concat([i \in 1..n |->
            IF i \in marked THEN SP \o Dogs \o SP \o fish \o DOT ELSE SP \o an \o DOT])

\* the most sentences of a text that hold key terms
MaxMarked == 3

SummaryTexts ==
  UNION {{SummaryText(n, marked) :
            marked \in {m \in SUBSET (1..n) : Cardinality(m) <= MaxMarked}} :
         n \in 1..MaxSentences}

\* the key terms of an earlier document, or none
SummaryStates ==
  {<<>>, extractKeyTerms(Dogs), extractKeyTerms(Dogs \o SP \o fish)}

InitSummary ==
  \E text \in SummaryTexts, stateKeyTerms \in SummaryStates :
    PipelineInit([InitialState EXCEPT !.keyTerms = stateKeyTerms], text)

SpecSummary == InitSummary /\ [][StepSummary]_vars

\* the least c with 4 * c >= n
CeilQuarter(n) == CHOOSE c \in 0..n : 4 * c >= n /\ 4 * (c - 1) < n

\* C8: for a text of N > 3 sentences the summary holds exactly
\* max(ceil(0.25 * N), 3) sentences, they are source sentences of distinct
\* positions, and they stand in ascending order of their original index.
C8_SummaryLengthAndOrder ==
  LET sentences == splitSentences(doc)
      n == Len(sentences)
      want == IF CeilQuarter(n) > 3 THEN CeilQuarter(n) ELSE 3
      out == splitSentences(summary)
      idx == topIndexes(sentences, keyTerms)
  IN  (pc = "summary" /\ n > 3) =>
        /\ Len(out) = want
        /\ Len(idx) = want
        /\ \A k \in DOMAIN idx : idx[k] \in 0..(n - 1)
        /\ \A k \in 1..(Len(idx) - 1) : idx[k] < idx[k + 1]
        /\ \A k \in DOMAIN idx : trim(out[k]) = trim(sentences[idx[k] + 1])
        /\ summary[Len(summary)] = "."

\* a summary of 4 sentences of a text of more than 12, in which sentences
\* holding key terms took the place of the second and the third sentence
C8_Witness ==
  LET sentences == splitSentences(doc)
      idx == topIndexes(sentences, keyTerms)
  IN  /\ pc = "summary"
      /\ Len(sentences) > 12
      /\ Len(idx) = 4
      /\ idx[2] > 2

(***************************************************************************)
(* SpecMCQ: extractKeyTerms, then generateMCQs, on texts of a few words.   *)
(***************************************************************************)
\* the most words of a text
MaxWords == 6

WordList == <<cats, Dogs, fish, year, bird, lion, wolf, frog>>

WordGaps == {SP, <<".", " ">>}

\* the first n words of WordList, gaps[i] standing between word i and i + 1
RECURSIVE WordsText(_, _)
WordsText(n, gaps) ==
  IF n = 1 THEN WordList[1]
  ELSE WordsText(n - 1, gaps) \o gaps[n - 1] \o WordList[n]

MCQTexts ==
  UNION {{WordsText(n, gaps) : gaps \in [1..(n - 1) -> WordGaps]} : n \in 1..MaxWords}

InitMCQ == \E text \in MCQTexts : PipelineInit(InitialState, text)

SpecMCQ == InitMCQ /\ [][StepTerms \/ StepMCQs]_vars

\* the first of the sentences that holds term
FirstSentenceWith(sentences, term) ==
  sentences[CHOOSE i \in DOMAIN sentences :
    /\ includes(toLowerCase(sentences[i]), toLowerCase(term))
    /\ \A j \in 1..(i - 1) :
         ~includes(toLowerCase(sentences[j]), toLowerCase(term))]

\* C2: every item of generateMCQs has exactly 4 options, correctAnswer is an
\* index in 0..3, options[correctAnswer] is the trimmed first sentence that
\* holds the item's term, and no other option equals it.
C2_CorrectAnswerTracksShuffle ==
  pc = "mcqs" =>
    \A sentences \in {splitSentences(doc)} :
      \A i \in DOMAIN mcqs :
        \A target \in {trim(FirstSentenceWith(sentences, mcqs[i].question.about))} :
          /\ Len(mcqs[i].options) = 4
          /\ mcqs[i].correctAnswer \in 0..3
          /\ mcqs[i].options[mcqs[i].correctAnswer + 1] = target
          /\ Cardinality({p \in 1..4 : mcqs[i].options[p] = target}) = 1

\* an item whose correct option the shuffle moved and whose target sentence
\* was trimmed
C2_Witness ==
  /\ pc = "mcqs"
  /\ \E i \in DOMAIN mcqs :
       /\ mcqs[i].correctAnswer = 2
       /\ FirstSentenceWith(splitSentences(doc), mcqs[i].question.about)
            # mcqs[i].options[3]
       /\ trim(FirstSentenceWith(splitSentences(doc), mcqs[i].question.about))
            = mcqs[i].options[3]

\* the key terms of the run that some sentence of doc holds
TermsWithMatch ==
  UNION {{t \in DOMAIN terms :
            \E s \in DOMAIN sentences : includes(sentences[s], toLowerCase(terms[t]))} :
         sentences \in {[s \in DOMAIN splitSentences(doc) |->
                           toLowerCase(splitSentences(doc)[s])]}}

\* C10: generateMCQs returns min(number of key terms with a matching
\* sentence, 10) items, with the ids 1..n in the order of the items.
C10_CountAndIds ==
  pc = "mcqs" =>
    /\ \A matching \in {Cardinality(TermsWithMatch)} :
         Len(mcqs) = IF matching < 10 THEN matching ELSE 10
    /\ \A i \in DOMAIN mcqs : mcqs[i].id = i

\* more than 10 key terms have a matching sentence, and a term without one
\* stands before terms that got a question
C10_Witness ==
  /\ pc = "mcqs"
  /\ Cardinality(TermsWithMatch) > 10
  /\ Len(mcqs) = 10
  /\ \E matching \in {TermsWithMatch} :
       \E t \in DOMAIN terms :
         /\ t \notin matching
         /\ t <= 10
         /\ \E i \in DOMAIN mcqs, u \in DOMAIN terms :
              u > 10 /\ mcqs[i].question.about = terms[u]

(***************************************************************************)
(* SpecQnA: extractKeyTerms, then generateQnA.  A text is up to MaxSlots   *)
(* sentences of four kinds followed by up to MaxFiller short sentences.    *)
(***************************************************************************)
MaxSlots == 3

MaxFiller == 9

\* a short sentence, two words, a sentence of 20 characters or more, and a
\* sentence with a line break
SentenceKinds ==
  {cats \o DOT,
   SP \o Dogs \o SP \o fish \o DOT,
   SP \o bird \o SP \o lion \o SP \o wolf \o SP \o frog \o SP \o year \o <<"!">>,
   NL \o wolf \o SP \o frog \o DOT}

QnATexts ==
  UNION {{Concat(slots) \o Concat([i \in 1..filler |-> SP \o an \o DOT]) :
            slots \in [1..n -> SentenceKinds], filler \in 0..MaxFiller} :
         n \in 1..MaxSlots}

InitQnA == \E text \in QnATexts : PipelineInit(InitialState, text)

SpecQnA == InitQnA /\ [][StepTerms \/ StepQnA]_vars

\* C5: the i-th item generateQnA returns (1-based) has id i, so the ids have
\* no gaps and no duplicates.
C5_SequentialIds ==
  pc = "qna" => \A i \in DOMAIN qna : qna[i].id = i

\* the number of items of a Q&A list that ask the general question named
CountGeneral(items, name) ==
  Cardinality({i \in DOMAIN items :
                 items[i].question.about = <<>> /\ items[i].question.template = name})

\* key-term lists other than the ones extractKeyTerms gives for the text
OtherKeyTerms == {<<>>, <<cats>>, <<an, wolf \o SP \o frog, year>>}

\* C11: generateQnA returns the "main topic" question iff the text has more
\* than 5 sentences and the "conclusion" question iff it has more than 10,
\* whatever the key terms are (the text's own or any other list), and never
\* more than one of each.
C11_GeneralQuestions ==
  pc = "qna" =>
    \A n \in {Len(splitSentences(doc))} :
      \A keys \in OtherKeyTerms \cup {terms} :
        \A out \in {generateQnA(doc, keys)} :
          /\ CountGeneral(out, "main topic") = (IF n > 5 THEN 1 ELSE 0)
          /\ CountGeneral(out, "conclusion") = (IF n > 10 THEN 1 ELSE 0)
          /\ keys = terms => out = qna

\* generateQnA has run on a text of exactly 11 sentences, one more than the
\* threshold: both general questions follow the term questions
C11_Witness ==
  /\ pc = "qna"
  /\ Len(splitSentences(doc)) = 11
  /\ Len(qna) > 2
  /\ qna[Len(qna)].question.template = "conclusion"
  /\ qna[Len(qna) - 1].question.template = "main topic"
  /\ qna[1].question.about # <<>>

(***************************************************************************)
(* SpecPipeline: processDocument run on one document after the other, as   *)
(* it would run from line 181; each run finds the state the run before it  *)
(* left.                                                                   *)
(***************************************************************************)
ProcessDocument(text) ==
  /\ pc \in {"ready", "processed"}
  /\ \E r \in {stageResults(text, keyTerms)}, shuffle \in Shuffles :
       Commit(storeResults(st, r, shuffle))
  /\ doc' = text
  /\ terms' = extractKeyTerms(text)
  /\ pc' = "processed"
  /\ UNCHANGED uploads

PipelineTexts == ComponentTexts \cup {Dogs \o SP \o fish \o DOT \o NL \o cats}

InitPipeline == PipelineInit(InitialState, <<>>)

SpecPipeline == InitPipeline /\ [][\E text \in PipelineTexts : ProcessDocument(text)]_vars

\* C3: after processDocument has run on a document, summary and qna are
\* what the document's text and the key terms extracted from it in this run
\* give, whatever was processed before; so two runs on the same text leave
\* the same summary and Q&A.
C3_SummaryOfThisRun ==
  pc = "processed" =>
    /\ summary = generateSummary(doc, extractKeyTerms(doc))
    /\ qna = generateQnA(doc, extractKeyTerms(doc))

====
